---- MODULE Spec2Model ----
(***************************************************************************)
(* Model of Improve_ImgSLI/icons/cleanup_project.py: the comment strippers *)
(* (Python, Shell, HTML, CSS, JS), the whitespace normaliser               *)
(* cleanup_empty_lines, the change-aware writer write_if_changed and the   *)
(* processing loop of main.                                                *)
(*                                                                         *)
(* A text is a sequence of one-character strings.  Three specifications:   *)
(*   SpecText   - one call of a stripper / of the normaliser on a source   *)
(*   SpecWriter - write_if_changed called with dry_run = TRUE and FALSE    *)
(*                from the same on-disk state                              *)
(*   SpecMain   - three runs of main over a discovered file mapping:       *)
(*                --dry-run, then two non-dry runs                         *)
(***************************************************************************)
EXTENDS Integers, Sequences, FiniteSets, TLC

(* ------------------------------------------------------------------ *)
(* Characters and generic text helpers                                 *)
(* ------------------------------------------------------------------ *)

NL == "\n"

\* [ \t] of the regular expression in cleanup_empty_lines
HSpace == {" ", "\t"}

\* what str.lstrip() / \s remove (within the alphabet of the model)
Whitespace == {" ", "\t", "\n"}

\* \w of ENCODING_COOKIE_RE and the identifier characters of the tokenizer
WordChars == {"a", "c", "d", "g", "i", "k", "n", "o", "u", "x", "8", "A", "K"}

\* str.lower() on one character
LowerChar(c) == CASE c = "A" -> "a" [] c = "K" -> "k" [] OTHER -> c

Lower(t) == [i \in 1..Len(t) |-> LowerChar(t[i])]

\* t[i:] of Python with a 1-based i
From(t, i) == SubSeq(t, i, Len(t))

\* whether p occurs in t starting at (1-based) position i
StartsAt(t, p, i) ==
    /\ i >= 1
    /\ i + Len(p) - 1 <= Len(t)
    /\ \A m \in 1..Len(p) : t[i + m - 1] = p[m]

\* str.startswith
StartsWith(t, p) == StartsAt(t, p, 1)

\* Python's  p in t
IsSubstring(p, t) == \E i \in 1..(Len(t) + 1) : StartsAt(t, p, i)

\* str.lstrip(): the text from its first non-whitespace character on
RECURSIVE LStrip(_)
LStrip(t) ==
    IF t = <<>> THEN <<>>
    ELSE IF Head(t) \in Whitespace THEN LStrip(Tail(t)) ELSE t

RECURSIVE Flatten(_)
Flatten(ss) == IF ss = <<>> THEN <<>> ELSE Head(ss) \o Flatten(Tail(ss))

\* str.splitlines(keepends=True): every line keeps its "\n"; the last line
\* may lack one; the empty text has no lines
RECURSIVE SplitFrom(_, _, _)
SplitFrom(t, i, cur) ==
    IF i > Len(t) THEN (IF cur = <<>> THEN <<>> ELSE <<cur>>)
    ELSE IF t[i] = NL THEN <<Append(cur, NL)>> \o SplitFrom(t, i + 1, <<>>)
    ELSE SplitFrom(t, i + 1, Append(cur, t[i]))

splitlines(t) == SplitFrom(t, 1, <<>>)

(* ------------------------------------------------------------------ *)
(* has_shebang, has_encoding_cookie, keyword policy                    *)
(* ------------------------------------------------------------------ *)

has_shebang(line) == StartsWith(line, <<"#", "!">>)

\* ENCODING_COOKIE_RE = coding[:=]\s*([-\.\w]+), searched anywhere in line
has_encoding_cookie(line) ==
    \E i \in 1..Len(line) :
        /\ StartsAt(line, <<"c", "o", "d", "i", "n", "g">>, i)
        /\ i + 6 <= Len(line)
        /\ line[i + 6] \in {":", "="}
        /\ \E j \in (i + 7)..Len(line) :
              /\ \A m \in (i + 7)..(j - 1) : line[m] \in Whitespace
              /\ line[j] \in WordChars \cup {"-", "."}

should_keep_py_comment(comment_text, keep_keywords) ==
    LET lower == Lower(comment_text)
    IN  \E kw \in keep_keywords : IsSubstring(kw, lower)

\* a variant of should_keep_sh_comment without line 73: the text is not
\* lower-cased before the keywords are searched
should_keep_sh_comment_CaseSensitive(comment_line, keep_keywords) ==
    LET stripped == LStrip(comment_line)
        text_part == LStrip(From(stripped, 2))
    IN  \E kw \in keep_keywords : IsSubstring(kw, text_part)

should_keep_sh_comment(comment_line, keep_keywords) ==
    LET stripped == LStrip(comment_line)
        text_part == LStrip(From(stripped, 2))
        lower == Lower(text_part)
    IN  \E kw \in keep_keywords : IsSubstring(kw, lower)

(* ------------------------------------------------------------------ *)
(* cleanup_empty_lines                                                 *)
(* ------------------------------------------------------------------ *)

\* re.sub(r"[ \t]+$", "", text, flags=re.MULTILINE) on t[1..i]: a run of
\* spaces/tabs is removed when a "\n" or the end of the text follows it.
\* atEol says whether everything kept so far to the right of i is such an end.
\* a variant of StripTrailing for [ \t]$ instead of [ \t]+$: only the last
\* space or tab of a trailing run is removed
RECURSIVE StripTrailing_OneChar(_, _, _)
StripTrailing_OneChar(t, i, atEol) ==
    IF i = 0 THEN <<>>
    ELSE IF atEol /\ t[i] \in HSpace THEN StripTrailing_OneChar(t, i - 1, FALSE)
    ELSE Append(StripTrailing_OneChar(t, i - 1, t[i] = NL), t[i])

RECURSIVE StripTrailing(_, _, _)
StripTrailing(t, i, atEol) ==
    IF i = 0 THEN <<>>
    ELSE IF atEol /\ t[i] \in HSpace THEN StripTrailing(t, i - 1, TRUE)
    ELSE Append(StripTrailing(t, i - 1, t[i] = NL), t[i])

\* re.sub(r"\n{3,}", "\n\n", text) on t[1..i]: of a run of newlines the
\* first two are kept
RECURSIVE CollapseNewlines(_, _)
CollapseNewlines(t, i) ==
    IF i = 0 THEN <<>>
    ELSE IF i >= 3 /\ t[i] = NL /\ t[i - 1] = NL /\ t[i - 2] = NL
         THEN CollapseNewlines(t, i - 1)
    ELSE Append(CollapseNewlines(t, i - 1), t[i])

EndsWithNewline(t) == t # <<>> /\ t[Len(t)] = NL

\* a variant of cleanup_empty_lines without lines 80-81: no final newline
\* is added
cleanup_NoFinalNewline(text) ==
    LET t1 == StripTrailing(text, Len(text), TRUE)
    IN  CollapseNewlines(t1, Len(t1))

cleanup_empty_lines(text) ==
    LET t1 == StripTrailing(text, Len(text), TRUE)
        t2 == CollapseNewlines(t1, Len(t1))
    IN  IF ~EndsWithNewline(t2) /\ t2 # <<>> THEN Append(t2, NL) ELSE t2

(* ------------------------------------------------------------------ *)
(* Shell, HTML, CSS, JS strippers                                      *)
(* ------------------------------------------------------------------ *)

\* the loop of strip_shell_comments over lines[start_index:]
RECURSIVE ShellKeepLines(_, _)
ShellKeepLines(lines, keep_keywords) ==
    IF lines = <<>> THEN <<>>
    ELSE LET line == Head(lines)
             stripped_line == LStrip(line)
             rest == ShellKeepLines(Tail(lines), keep_keywords)
         IN  IF StartsWith(stripped_line, <<"#">>)
             THEN (IF should_keep_sh_comment(stripped_line, keep_keywords)
                   THEN <<line>> \o rest ELSE rest)
             ELSE <<line>> \o rest

strip_shell_comments(source, keep_keywords) ==
    LET lines == splitlines(source)
    IN  IF lines = <<>> THEN <<>>
        ELSE LET shebang == has_shebang(lines[1])
                 new_lines ==
                     IF shebang
                     THEN <<lines[1]>> \o ShellKeepLines(Tail(lines), keep_keywords)
                     ELSE ShellKeepLines(lines, keep_keywords)
             IN  cleanup_empty_lines(Flatten(new_lines))

\* the least j >= i at which close starts in t, or 0
FindFrom(t, close, i) ==
    LET hits == {j \in i..Len(t) : StartsAt(t, close, j)}
    IN  IF hits = {} THEN 0 ELSE CHOOSE j \in hits : \A m \in hits : j <= m

\* re.sub(open + ".*?" + close, "", t, flags=re.DOTALL) from position i on:
\* leftmost matches, each ending at the nearest close after its open
RECURSIVE RemoveDelimited(_, _, _, _)
RemoveDelimited(t, open, close, i) ==
    IF i > Len(t) THEN <<>>
    ELSE LET j == IF StartsAt(t, open, i)
                  THEN FindFrom(t, close, i + Len(open)) ELSE 0
         IN  IF j # 0 THEN RemoveDelimited(t, open, close, j + Len(close))
             ELSE <<t[i]>> \o RemoveDelimited(t, open, close, i + 1)

\* the end of the line holding position i: the position of its "\n", or
\* Len(t) + 1
LineEnd(t, i) == LET j == FindFrom(t, <<NL>>, i) IN IF j = 0 THEN Len(t) + 1 ELSE j

\* re.sub(r"(?<!:)//.*", "", t) from position i on: "//" not preceded by ":"
\* is removed up to (not including) the end of its line
RECURSIVE RemoveLineComments(_, _)
RemoveLineComments(t, i) ==
    IF i > Len(t) THEN <<>>
    ELSE IF StartsAt(t, <<"/", "/">>, i) /\ (i = 1 \/ t[i - 1] # ":")
         THEN RemoveLineComments(t, LineEnd(t, i))
    ELSE <<t[i]>> \o RemoveLineComments(t, i + 1)

strip_html_comments(source) ==
    cleanup_empty_lines(
        RemoveDelimited(source, <<"<", "!", "-", "-">>, <<"-", "-", ">">>, 1))

strip_css_comments(source) ==
    cleanup_empty_lines(RemoveDelimited(source, <<"/", "*">>, <<"*", "/">>, 1))

strip_js_comments(source) ==
    LET cleaned == RemoveDelimited(source, <<"/", "*">>, <<"*", "/">>, 1)
    IN  cleanup_empty_lines(RemoveLineComments(cleaned, 1))

(* ------------------------------------------------------------------ *)
(* tokenize.tokenize and tokenize.untokenize (CPython 3.11, the pure    *)
(* Python tokenizer) on the fragment: names, spaces, newlines, comments,*)
(* one-character operators and triple-quoted strings.  Rows are 1-based *)
(* and columns 0-based, as in TokenInfo.                                *)
(* ------------------------------------------------------------------ *)

TripleQuote == <<"\"", "\"", "\"">>

Tok(type, string, srow, scol, erow, ecol) ==
    [type |-> type, string |-> string, srow |-> srow, scol |-> scol,
     erow |-> erow, ecol |-> ecol]

Last(s) == s[Len(s)]

Range(s) == {s[i] : i \in 1..Len(s)}

\* the least j >= p with line[j] outside set, or Len(line) + 1
RECURSIVE RunEnd(_, _, _)
RunEnd(line, p, set) ==
    IF p > Len(line) \/ line[p] \notin set THEN p ELSE RunEnd(line, p + 1, set)

\* the inner loop "while pos < max" of the tokenizer on one line, from the
\* 1-based position p.  incont: the line ended inside a triple-quoted string.
RECURSIVE ScanLine(_, _, _, _)
ScanLine(line, lnum, p, toks) ==
    IF p > Len(line)
    THEN [toks |-> toks, incont |-> FALSE, contstr |-> <<>>, strstart |-> <<0, 0>>]
    ELSE IF line[p] \in HSpace THEN ScanLine(line, lnum, p + 1, toks)
    ELSE IF line[p] = NL
         THEN ScanLine(line, lnum, p + 1,
                       Append(toks, Tok("NEWLINE", <<NL>>, lnum, p - 1, lnum, p)))
    ELSE IF line[p] = "#"
         THEN LET e == LineEnd(line, p)
              IN  ScanLine(line, lnum, e,
                           Append(toks, Tok("COMMENT", SubSeq(line, p, e - 1),
                                            lnum, p - 1, lnum, e - 1)))
    ELSE IF StartsAt(line, TripleQuote, p)
         THEN LET j == FindFrom(line, TripleQuote, p + 3)
              IN  IF j # 0
                  THEN ScanLine(line, lnum, j + 3,
                                Append(toks, Tok("STRING", SubSeq(line, p, j + 2),
                                                 lnum, p - 1, lnum, j + 2)))
                  ELSE [toks |-> toks, incont |-> TRUE, contstr |-> From(line, p),
                        strstart |-> <<lnum, p - 1>>]
    ELSE IF line[p] \in WordChars
         THEN LET e == RunEnd(line, p, WordChars)
              IN  ScanLine(line, lnum, e,
                           Append(toks, Tok("NAME", SubSeq(line, p, e - 1),
                                            lnum, p - 1, lnum, e - 1)))
    ELSE ScanLine(line, lnum, p + 1,
                  Append(toks, Tok("OP", <<line[p]>>, lnum, p - 1, lnum, p)))

\* "while column < indents[-1]": pops and DEDENT tokens, or the
\* IndentationError when column is no level of the stack
RECURSIVE Dedent(_, _, _, _)
Dedent(indents, column, lnum, toks) ==
    IF column >= Last(indents)
    THEN [err |-> FALSE, indents |-> indents, toks |-> toks]
    ELSE IF column \notin Range(indents)
         THEN [err |-> TRUE, indents |-> indents, toks |-> toks]
    ELSE Dedent(SubSeq(indents, 1, Len(indents) - 1), column, lnum,
                Append(toks, Tok("DEDENT", <<>>, lnum, column, lnum, column)))

RECURSIVE DedentAtEnd(_, _, _)
DedentAtEnd(n, lnum, toks) ==
    IF n = 0 THEN toks
    ELSE DedentAtEnd(n - 1, lnum, Append(toks, Tok("DEDENT", <<>>, lnum, 0, lnum, 0)))

\* after the loop: the implicit NEWLINE, the closing DEDENTs, ENDMARKER
TokFinish(toks, indents, lnum, last_line) ==
    LET implicit ==
            /\ last_line # <<>>
            /\ Last(last_line) # NL
            /\ ~StartsWith(LStrip(last_line), <<"#">>)
        t1 == IF implicit
              THEN Append(toks, Tok("NEWLINE", <<>>, lnum - 1, Len(last_line),
                                    lnum - 1, Len(last_line) + 1))
              ELSE toks
        t2 == DedentAtEnd(Len(indents) - 1, lnum, t1)
    IN  [err |-> "none", toks |-> Append(t2, Tok("ENDMARKER", <<>>, lnum, 0, lnum, 0))]

\* the loop over the lines; k is lnum, the number of the line being read
RECURSIVE TokLoop(_, _, _, _, _, _, _)
TokLoop(lines, k, toks, indents, incont, contstr, strstart) ==
    IF k > Len(lines)
    THEN \* readline() returned the empty line
         IF incont THEN [err |-> "TokenError", toks |-> <<>>]
         ELSE TokFinish(toks, indents, k,
                        IF lines = <<>> THEN <<>> ELSE Last(lines))
    ELSE LET line == lines[k]
         IN  IF incont
             THEN LET j == FindFrom(line, TripleQuote, 1)
                  IN  IF j # 0
                      THEN LET tok == Tok("STRING", contstr \o SubSeq(line, 1, j + 2),
                                          strstart[1], strstart[2], k, j + 2)
                               r == ScanLine(line, k, j + 3, Append(toks, tok))
                           IN  TokLoop(lines, k + 1, r.toks, indents,
                                       r.incont, r.contstr, r.strstart)
                      ELSE TokLoop(lines, k + 1, toks, indents, TRUE,
                                   contstr \o line, strstart)
             ELSE LET p == RunEnd(line, 1, {" "})
                      column == p - 1
                  IN  IF p > Len(line)
                      THEN \* "if pos == max: break": a last line of spaces only
                           TokFinish(toks, indents, k,
                                     IF k = 1 THEN <<>> ELSE lines[k - 1])
                      ELSE IF line[p] = "#"
                           THEN LET e == LineEnd(line, p)
                                    t1 == Append(toks, Tok("COMMENT", SubSeq(line, p, e - 1),
                                                           k, p - 1, k, e - 1))
                                    t2 == Append(t1, Tok("NL", From(line, e),
                                                         k, e - 1, k, Len(line)))
                                IN  TokLoop(lines, k + 1, t2, indents, FALSE, <<>>, <<0, 0>>)
                      ELSE IF line[p] = NL
                           THEN TokLoop(lines, k + 1,
                                        Append(toks, Tok("NL", From(line, p),
                                                         k, p - 1, k, Len(line))),
                                        indents, FALSE, <<>>, <<0, 0>>)
                      ELSE LET pushed == column > Last(indents)
                               d == IF pushed
                                    THEN [err |-> FALSE,
                                          indents |-> Append(indents, column),
                                          toks |-> Append(toks, Tok("INDENT",
                                                     SubSeq(line, 1, p - 1), k, 0, k, p - 1))]
                                    ELSE Dedent(indents, column, k, toks)
                           IN  IF d.err
                               THEN [err |-> "IndentationError", toks |-> <<>>]
                               ELSE LET r == ScanLine(line, k, p, d.toks)
                                    IN  TokLoop(lines, k + 1, r.toks, d.indents,
                                                r.incont, r.contstr, r.strstart)

\* [-\w.] of tokenize's cookie_re
NameChars == WordChars \cup {"-", "."}

\* the codec names lookup() knows among those the modelled sources can spell
IsKnownEncoding(name) == name = <<"u", "8">>

\* the positions i of line where cookie_re, ^[ \t\f]*#.*?coding[:=][ \t]*([-\w.]+),
\* can place "coding"
CookieStarts(line) ==
    LET p == RunEnd(line, 1, HSpace)
    IN  IF p > Len(line) \/ line[p] # "#" THEN {}
        ELSE {i \in (p + 1)..Len(line) :
                /\ StartsAt(line, <<"c", "o", "d", "i", "n", "g">>, i)
                /\ i + 6 <= Len(line)
                /\ line[i + 6] \in {":", "="}
                /\ LET q == RunEnd(line, i + 7, HSpace)
                   IN  q <= Len(line) /\ line[q] \in NameChars}

\* find_cookie: group(1) of the leftmost match, or <<>> when there is none
FindCookie(line) ==
    LET starts == CookieStarts(line)
    IN  IF starts = {} THEN <<>>
        ELSE LET i == CHOOSE i \in starts : \A m \in starts : i <= m
                 q == RunEnd(line, i + 7, HSpace)
             IN  SubSeq(line, q, RunEnd(line, q, NameChars) - 1)

\* blank_re, ^[ \t\f]*(?:[#\r\n]|$)
IsBlankOrComment(line) ==
    LET p == RunEnd(line, 1, HSpace)
    IN  p > Len(line) \/ line[p] \in {"#", NL}

\* detect_encoding over the first two lines: the encoding, or the
\* SyntaxError("unknown encoding") of find_cookie
DetectEncoding(lines) ==
    LET default == [err |-> FALSE, encoding |-> <<"u", "t", "f", "-", "8">>]
        cookie(name) == IF IsKnownEncoding(name)
                        THEN [err |-> FALSE, encoding |-> name]
                        ELSE [err |-> TRUE, encoding |-> name]
    IN  IF lines = <<>> THEN default
        ELSE IF FindCookie(lines[1]) # <<>> THEN cookie(FindCookie(lines[1]))
        ELSE IF ~IsBlankOrComment(lines[1]) THEN default
        ELSE IF Len(lines) < 2 THEN default
        ELSE IF FindCookie(lines[2]) # <<>> THEN cookie(FindCookie(lines[2]))
        ELSE default

\* tokenize.tokenize(io.BytesIO(text.encode("utf-8")).readline), consumed to
\* its end: the token list, or the exception the generator raises
PyTokenize(text) ==
    LET lines == splitlines(text)
        enc == DetectEncoding(lines)
    IN  IF enc.err THEN [err |-> "SyntaxError", toks |-> <<>>]
        ELSE TokLoop(lines, 1, <<Tok("ENCODING", enc.encoding, 0, 0, 0, 0)>>,
                     <<0>>, FALSE, <<>>, <<0, 0>>)

Spaces(n) == [i \in 1..n |-> " "]

Continuations(n) == Flatten([i \in 1..n |-> <<"\\", NL>>])

\* Untokenizer.untokenize over toks[i..]; err is add_whitespace's ValueError
RECURSIVE Untok(_, _, _, _, _, _, _)
Untok(toks, i, out, prev_row, prev_col, indents, startline) ==
    IF i > Len(toks) THEN [err |-> FALSE, text |-> out]
    ELSE LET t == toks[i]
         IN  CASE t.type = "ENCODING" ->
                    Untok(toks, i + 1, out, prev_row, prev_col, indents, startline)
               [] t.type = "ENDMARKER" -> [err |-> FALSE, text |-> out]
               [] t.type = "INDENT" ->
                    Untok(toks, i + 1, out, prev_row, prev_col,
                          Append(indents, t.string), startline)
               [] t.type = "DEDENT" ->
                    Untok(toks, i + 1, out, t.erow, t.ecol,
                          SubSeq(indents, 1, Len(indents) - 1), startline)
               [] OTHER ->
                    LET isnl == t.type \in {"NEWLINE", "NL"}
                        reindent == ~isnl /\ startline /\ indents # <<>>
                        fits == reindent /\ t.scol >= Len(Last(indents))
                        out1 == IF fits THEN out \o Last(indents) ELSE out
                        col1 == IF fits THEN Len(Last(indents)) ELSE prev_col
                        start1 == IF isnl THEN TRUE
                                  ELSE IF reindent THEN FALSE ELSE startline
                        bad == t.srow < prev_row \/ (t.srow = prev_row /\ t.scol < col1)
                        row_offset == t.srow - prev_row
                        out2 == IF row_offset # 0
                                THEN out1 \o Continuations(row_offset) ELSE out1
                        col2 == IF row_offset # 0 THEN 0 ELSE col1
                        out3 == out2 \o Spaces(t.scol - col2) \o t.string
                    IN  IF bad THEN [err |-> TRUE, text |-> <<>>]
                        ELSE IF isnl
                             THEN Untok(toks, i + 1, out3, t.erow + 1, 0, indents, start1)
                             ELSE Untok(toks, i + 1, out3, t.erow, t.ecol, indents, start1)

untokenize(toks) == Untok(toks, 1, <<>>, 1, 0, <<>>, FALSE)

(* ------------------------------------------------------------------ *)
(* strip_python_comments                                               *)
(* ------------------------------------------------------------------ *)

Returned(text) == [raised |-> FALSE, exc |-> "", value |-> text]

Raised(exc) == [raised |-> TRUE, exc |-> exc, value |-> <<>>]

\* the tokens the loop appends: every non-comment token and the comments
\* the keyword policy keeps
RECURSIVE KeepTokens(_, _)
KeepTokens(toks, keep_keywords) ==
    IF toks = <<>> THEN <<>>
    ELSE LET tok == Head(toks)
             rest == KeepTokens(Tail(toks), keep_keywords)
         IN  IF tok.type = "COMMENT"
             THEN (IF should_keep_py_comment(tok.string, keep_keywords)
                   THEN <<tok>> \o rest ELSE rest)
             ELSE <<tok>> \o rest

\* a variant of PrefixLength without lines 90-92: a shebang is not preserved
PrefixLength_NoShebang(lines) ==
    IF 0 < Len(lines) /\ has_encoding_cookie(lines[1]) THEN 1 ELSE 0

\* lines 86-95: how many leading lines are the preserved prefix
PrefixLength(lines) ==
    LET i0 == IF lines # <<>> /\ has_shebang(lines[1]) THEN 1 ELSE 0
    IN  IF i0 < Len(lines) /\ has_encoding_cookie(lines[i0 + 1]) THEN i0 + 1 ELSE i0

\* "".join(preserved_prefix)
PreservedPrefix(source) ==
    LET lines == splitlines(source)
    IN  Flatten(SubSeq(lines, 1, PrefixLength(lines)))

\* line 97
Remaining(source) ==
    LET lines == splitlines(source)
    IN  Flatten(SubSeq(lines, PrefixLength(lines) + 1, Len(lines)))

\* lines 98-114: what the two try blocks leave: the exception the first one
\* lets through, the fallback to source, or processed_text
Fallback == [kind |-> "fallback", exc |-> "", text |-> <<>>]

\* lines 110-114
Untokenized(u) ==
    IF u.err THEN Fallback ELSE [kind |-> "text", exc |-> "", text |-> u.text]

\* lines 99-108, then lines 110-114
Tokenized(tk, keep_keywords) ==
    IF tk.err = "TokenError" THEN Fallback
    ELSE IF tk.err # "none" THEN [kind |-> "raise", exc |-> tk.err, text |-> <<>>]
    ELSE Untokenized(untokenize(KeepTokens(tk.toks, keep_keywords)))

Processed(source, keep_keywords) ==
    Tokenized(PyTokenize(Remaining(source)), keep_keywords)

\* a variant of line 116 that normalises after reattaching the prefix
JoinPrefix_NormalizeAll(preserved_prefix, processed_text) ==
    cleanup_empty_lines(preserved_prefix \o processed_text)

\* line 116
JoinPrefix(preserved_prefix, processed_text) ==
    preserved_prefix \o cleanup_empty_lines(processed_text)

\* lines 108, 114 and 116: what strip_python_comments returns or raises
Outcome(source, pr) ==
    CASE pr.kind = "fallback" -> Returned(source)
      [] pr.kind = "raise" -> Raised(pr.exc)
      [] OTHER -> Returned(JoinPrefix(PreservedPrefix(source), pr.text))

strip_python_comments(source, keep_keywords) ==
    Outcome(source, Processed(source, keep_keywords))

(* ------------------------------------------------------------------ *)
(* write_if_changed                                                    *)
(* ------------------------------------------------------------------ *)

\* A file on disk: readable says whether path.read_text succeeds (the file
\* exists, may be read and decodes), writable whether path.write_text does.
File(readable, content, writable) ==
    [readable |-> readable, content |-> content, writable |-> writable]

\* a variant of write_if_changed that tests dry_run before it compares
write_if_changed_DryFirst(file, new_content, dry_run) ==
    IF dry_run
    THEN [raised |-> FALSE, verdict |-> TRUE, file |-> file]
    ELSE IF file.readable /\ file.content = new_content
         THEN [raised |-> FALSE, verdict |-> FALSE, file |-> file]
    ELSE IF file.writable
         THEN [raised |-> FALSE, verdict |-> TRUE,
               file |-> File(TRUE, new_content, TRUE)]
    ELSE [raised |-> TRUE, verdict |-> FALSE, file |-> file]

\* write_if_changed(path, new_content, dry_run) on the file at path: the
\* verdict it returns (or that write_text raised) and the file it leaves
write_if_changed(file, new_content, dry_run) ==
    IF file.readable /\ file.content = new_content
    THEN [raised |-> FALSE, verdict |-> FALSE, file |-> file]
    ELSE IF dry_run
         THEN [raised |-> FALSE, verdict |-> TRUE, file |-> file]
    ELSE IF file.writable
         THEN [raised |-> FALSE, verdict |-> TRUE,
               file |-> File(TRUE, new_content, TRUE)]
    ELSE [raised |-> TRUE, verdict |-> FALSE, file |-> file]

(* ------------------------------------------------------------------ *)
(* discover_source_files and the processing loop of main               *)
(* ------------------------------------------------------------------ *)

\* the order of the processors dict
FileTypes == <<"py", "sh", "html", "css", "js">>

\* the file system the runs see: directory "d" with one file of every
\* supported kind, one unsupported file and the excluded directory "d/.git"
TreeFiles == {"d/a.py", "d/b.sh", "d/c.html", "d/e.css", "d/f.js"}

\* os.walk("d") top-down: (dirpath, dirnames, filenames)
Walk ==
    <<[dirpath |-> "d", parent |-> "", name |-> "d",
       filenames |-> <<"d/a.py", "d/b.sh", "d/c.html", "d/e.css", "d/f.js", "d/g.txt">>],
      [dirpath |-> "d/.git", parent |-> "d", name |-> ".git",
       filenames |-> <<"d/.git/h.py">>]>>

\* Path.suffix looked up in supported_suffixes ("" when unsupported)
SuffixKind(path) ==
    CASE path \in {"d/a.py", "d/.git/h.py"} -> "py"
      [] path = "d/b.sh" -> "sh"
      [] path = "d/c.html" -> "html"
      [] path = "d/e.css" -> "css"
      [] path = "d/f.js" -> "js"
      [] OTHER -> ""

\* d not in SAFE_EXCLUDED_DIRNAMES and not d.startswith(".")
DirKept(name) == name \notin {".git"}

is_file(path) == path \in TreeFiles \cup {"d/g.txt", "d/.git/h.py"}

exists(path) == is_file(path) \/ path \in {"d", "d/.git"}

EmptyDiscovered == [t \in Range(FileTypes) |-> <<>>]

RECURSIVE AppendFiles(_, _)
AppendFiles(discovered, filenames) ==
    IF filenames = <<>> THEN discovered
    ELSE LET file_path == Head(filenames)
             file_type == SuffixKind(file_path)
             d1 == IF file_type # ""
                   THEN [discovered EXCEPT ![file_type] = Append(@, file_path)]
                   ELSE discovered
         IN  AppendFiles(d1, Tail(filenames))

\* the os.walk loop below root_path: a directory is visited when it is the
\* root or its name was kept in its parent's dirnames
RECURSIVE WalkFrom(_, _, _)
WalkFrom(discovered, root_path, i) ==
    IF i > Len(Walk) THEN discovered
    ELSE LET e == Walk[i]
             visited == e.dirpath = root_path
                        \/ (e.parent = root_path /\ DirKept(e.name))
         IN  WalkFrom(IF visited THEN AppendFiles(discovered, e.filenames)
                      ELSE discovered, root_path, i + 1)

RECURSIVE Discover(_, _)
Discover(discovered, paths) ==
    IF paths = <<>> THEN discovered
    ELSE LET root_path == Head(paths)
             d1 == IF is_file(root_path) THEN AppendFiles(discovered, <<root_path>>)
                   ELSE IF ~exists(root_path) THEN discovered
                   ELSE WalkFrom(discovered, root_path, 1)
         IN  Discover(d1, Tail(paths))

discover_source_files(paths) == Discover(EmptyDiscovered, paths)

\* processors[file_type][0] applied to the text read
Processor(file_type, src, py_keep_kw, sh_keep_kw) ==
    CASE file_type = "py" -> strip_python_comments(src, py_keep_kw)
      [] file_type = "sh" -> Returned(strip_shell_comments(src, sh_keep_kw))
      [] file_type = "html" -> Returned(strip_html_comments(src))
      [] file_type = "css" -> Returned(strip_css_comments(src))
      [] OTHER -> Returned(strip_js_comments(src))

\* the files the loop of lines 274-282 visits, in its order: for every
\* processor that is not skipped, the paths discovered for its kind
RECURSIVE WorkFrom(_, _, _)
WorkFrom(discovered, skip, i) ==
    IF i > Len(FileTypes) THEN <<>>
    ELSE LET file_type == FileTypes[i]
             files == [j \in 1..Len(discovered[file_type]) |->
                          [file_type |-> file_type, path |-> discovered[file_type][j]]]
         IN  (IF file_type \in skip THEN <<>> ELSE files)
             \o WorkFrom(discovered, skip, i + 1)

\* lines 283-291 for one file: what is on disk afterwards, whether the file
\* was counted as changed, whether the except branch reported an error
\* lines 286-291 given what write_if_changed did
Written(w) ==
    IF w.raised THEN [file |-> w.file, changed |-> FALSE, error |-> TRUE]
    ELSE [file |-> w.file, changed |-> w.verdict, error |-> FALSE]

\* lines 285-291 given what the processor returned or raised
Cleaned(file, cleaned, dry_run) ==
    IF cleaned.raised THEN [file |-> file, changed |-> FALSE, error |-> TRUE]
    ELSE Written(write_if_changed(file, cleaned.value, dry_run))

ProcessOne(file, file_type, dry_run, py_keep_kw, sh_keep_kw) ==
    IF ~file.readable
    THEN [file |-> file, changed |-> FALSE, error |-> TRUE]
    ELSE Cleaned(file, Processor(file_type, file.content, py_keep_kw, sh_keep_kw),
                 dry_run)

(* ------------------------------------------------------------------ *)
(* State                                                               *)
(* ------------------------------------------------------------------ *)

VARIABLES
    \* SpecText
    source, keep_keywords, op, result, result2,
    \* SpecWriter
    start, new_content, dry_call, real_call,
    \* SpecMain
    disk, disk0, source_files, skip, run, pos, changed_count, error_count, reported

textVars == <<source, keep_keywords, op, result, result2>>

writerVars == <<start, new_content, dry_call, real_call>>

mainVars == <<disk, disk0, source_files, skip, run, pos, changed_count,
              error_count, reported>>

vars == <<textVars, writerVars, mainVars>>

NotCalled == [called |-> FALSE, raised |-> FALSE, verdict |-> FALSE,
              file |-> File(FALSE, <<>>, FALSE)]

\* the variables of a specification that is not running
IdleText ==
    /\ source = <<>>
    /\ keep_keywords = {}
    /\ op = "idle"
    /\ result = Returned(<<>>)
    /\ result2 = <<>>

IdleWriter ==
    /\ start = File(FALSE, <<>>, FALSE)
    /\ new_content = <<>>
    /\ dry_call = NotCalled
    /\ real_call = NotCalled

IdleMain ==
    /\ disk = <<>>
    /\ disk0 = <<>>
    /\ source_files = EmptyDiscovered
    /\ skip = {}
    /\ run = "idle"
    /\ pos = 0
    /\ changed_count = 0
    /\ error_count = 0
    /\ reported = <<>>

(* ------------------------------------------------------------------ *)
(* SpecText: one call of a text function on a source                   *)
(* ------------------------------------------------------------------ *)

\* the sources are the concatenations of at most MaxPieces pieces, the
\* texts of at most MaxWsLen whitespace-alphabet characters, and Examples
MaxPieces == 4

MaxWsLen == 5

Cookie == <<"c", "o", "d", "i", "n", "g", ":", "u", "8">>

Pieces == {<<"a">>, <<" ">>, <<NL>>, <<"#">>, <<"#", "!">>, <<"K">>,
           TripleQuote, Cookie}

WsPieces == {<<"a">>, <<" ">>, <<"\t">>, <<NL>>}

RECURSIVE Concats(_, _)
Concats(pieces, n) ==
    IF n = 0 THEN {<<>>}
    ELSE LET prev == Concats(pieces, n - 1)
         IN  prev \cup {p \o t : p \in pieces, t \in prev}

\* "  a\n a\n": a dedent to a column that is no indentation level
ExBadDedent == <<" ", " ", "a", NL, " ", "a", NL>>

\* a triple-quoted literal with a line ending in spaces, a run of blank
\* lines and a line starting with "#"
ExLiteral ==
    <<"a", " ", "=", " ">> \o TripleQuote \o <<"a", " ", " ", NL, NL, NL, NL,
      "#", " ", "a", NL>> \o TripleQuote \o <<NL>>

\* a literal that starts on a line matching the encoding pattern
ExCookieLiteral ==
    <<"a", " ", "=", " ">> \o TripleQuote \o <<"c", "o", "d", "i", "n", "g", "=",
      "u", "8", NL, "#", " ", "a", NL>> \o TripleQuote \o <<" ", "#", " ">>
      \o TripleQuote \o <<NL>>

\* shebang, three comment lines, code
ExShebangComments ==
    <<"#", "!", "a", NL, "#", " ", "a", NL, "#", " ", "a", NL, "#", " ", "a", NL,
      "a", NL>>

\* shebang, a keyword comment, code with an inline comment, a plain comment
ExShell ==
    <<"#", "!", "a", NL, "#", " ", "K", " ", "a", NL, "a", " ", " ", "#", " ", "a",
      NL, " ", "#", " ", "a", NL>>

\* nested blocks with a kept and a dropped comment
ExNested ==
    <<"a", ":", NL, " ", "a", ":", NL, " ", " ", "a", " ", "#", "K", NL, " ", "a",
      " ", "#", "a", NL>>

Examples == {ExBadDedent, ExLiteral, ExCookieLiteral, ExShebangComments,
             ExShell, ExNested}

Sources == Concats(Pieces, MaxPieces) \cup Concats(WsPieces, MaxWsLen) \cup Examples

\* keyword sets as main builds them: lower-cased, stripped, non-empty strings
KeywordSets == {{}, {<<"k">>}, {<<"k">>, <<"a", " ", "a">>}}

InitText ==
    /\ source \in Sources
    /\ keep_keywords \in KeywordSets
    /\ op = "none"
    /\ result = Returned(<<>>)
    /\ result2 = <<>>
    /\ IdleWriter
    /\ IdleMain

CallCleanup ==
    /\ op = "none"
    /\ op' = "cleanup"
    /\ result' = Returned(cleanup_empty_lines(source))
    /\ UNCHANGED <<source, keep_keywords, result2, writerVars, mainVars>>

\* the normaliser applied to its own output
CallCleanupAgain ==
    /\ op = "cleanup"
    /\ op' = "cleanup_twice"
    /\ result2' = cleanup_empty_lines(result.value)
    /\ UNCHANGED <<source, keep_keywords, result, writerVars, mainVars>>

CallStripPython ==
    /\ op = "none"
    /\ op' = "python"
    /\ result' = strip_python_comments(source, keep_keywords)
    /\ UNCHANGED <<source, keep_keywords, result2, writerVars, mainVars>>

CallStripShell ==
    /\ op = "none"
    /\ op' = "shell"
    /\ result' = Returned(strip_shell_comments(source, keep_keywords))
    /\ UNCHANGED <<source, keep_keywords, result2, writerVars, mainVars>>

CallStripHtml ==
    /\ op = "none"
    /\ op' = "html"
    /\ result' = Returned(strip_html_comments(source))
    /\ UNCHANGED <<source, keep_keywords, result2, writerVars, mainVars>>

CallStripCss ==
    /\ op = "none"
    /\ op' = "css"
    /\ result' = Returned(strip_css_comments(source))
    /\ UNCHANGED <<source, keep_keywords, result2, writerVars, mainVars>>

CallStripJs ==
    /\ op = "none"
    /\ op' = "js"
    /\ result' = Returned(strip_js_comments(source))
    /\ UNCHANGED <<source, keep_keywords, result2, writerVars, mainVars>>

NextText ==
    \/ CallCleanup
    \/ CallCleanupAgain
    \/ CallStripPython
    \/ CallStripShell
    \/ CallStripHtml
    \/ CallStripCss
    \/ CallStripJs

SpecText == InitText /\ [][NextText]_vars

(* ------------------------------------------------------------------ *)
(* SpecWriter: write_if_changed with dry_run = TRUE and with            *)
(* dry_run = FALSE, each called on the same starting file               *)
(* ------------------------------------------------------------------ *)

MaxContentLen == 2

Contents == Concats({<<"a">>, <<NL>>}, MaxContentLen)

\* an unreadable file has no content the program can see
FileStates ==
    {File(TRUE, c, w) : c \in Contents, w \in BOOLEAN}
    \cup {File(FALSE, <<>>, w) : w \in BOOLEAN}

InitWriter ==
    /\ start \in FileStates
    /\ new_content \in Contents
    /\ dry_call = NotCalled
    /\ real_call = NotCalled
    /\ IdleText
    /\ IdleMain

Call(dry_run) ==
    LET w == write_if_changed(start, new_content, dry_run)
    IN  [called |-> TRUE, raised |-> w.raised, verdict |-> w.verdict, file |-> w.file]

CallDryRun ==
    /\ ~dry_call.called
    /\ dry_call' = Call(TRUE)
    /\ UNCHANGED <<start, new_content, real_call, textVars, mainVars>>

CallWrite ==
    /\ ~real_call.called
    /\ real_call' = Call(FALSE)
    /\ UNCHANGED <<start, new_content, dry_call, textVars, mainVars>>

NextWriter == CallDryRun \/ CallWrite

SpecWriter == InitWriter /\ [][NextWriter]_vars

(* ------------------------------------------------------------------ *)
(* SpecMain: main --dry-run, then main twice without --dry-run, over    *)
(* the same targets, with --only-comments (no external formatter runs)  *)
(* ------------------------------------------------------------------ *)

MaxTargets == 2

Targets == {"d", "d/a.py", "d/e.css", "missing"}

RECURSIVE TargetLists(_)
TargetLists(n) ==
    IF n = 0 THEN {<<>>}
    ELSE LET prev == TargetLists(n - 1)
         IN  prev \cup {<<p>> \o t : p \in Targets, t \in prev}

\* the initial content of every file of the tree: one text the stripper of
\* its kind changes and one it leaves alone (or cannot tokenize)
InitialFiles(path) ==
    CASE path = "d/a.py" ->
           {File(TRUE, <<"a", " ", "#", "a", NL>>, TRUE), File(TRUE, ExBadDedent, TRUE)}
      [] path = "d/b.sh" ->
           {File(TRUE, <<"#", "a", NL, "a", NL>>, TRUE), File(FALSE, <<>>, TRUE)}
      [] path = "d/c.html" ->
           {File(TRUE, <<"a", "<", "!", "-", "-", "a", "-", "-", ">", NL>>, TRUE),
            File(TRUE, <<"a", NL>>, TRUE)}
      [] path = "d/e.css" ->
           {File(TRUE, <<"/", "/", "*", "*", "/", "*", "*", "/">>, TRUE),
            File(TRUE, <<"a", "/", "*", "a", "*", "/", NL>>, TRUE)}
      [] OTHER ->
           {File(TRUE, <<"a", ":", "/", "/", "a", " ", "/", "/", "a", NL>>, TRUE),
            File(TRUE, <<"a", NL>>, TRUE)}

InitialDisks ==
    {[p \in TreeFiles |->
        CASE p = "d/a.py" -> fa [] p = "d/b.sh" -> fb [] p = "d/c.html" -> fc
          [] p = "d/e.css" -> fe [] OTHER -> ff] :
     fa \in InitialFiles("d/a.py"), fb \in InitialFiles("d/b.sh"),
     fc \in InitialFiles("d/c.html"), fe \in InitialFiles("d/e.css"),
     ff \in InitialFiles("d/f.js")}

\* the skip flags given: none, or one of --skip-sh/-html/-css/-js
SkipChoices == {{}, {"sh"}, {"html"}, {"css"}, {"js"}}

PyKeep == {<<"k">>}

ShKeep == {<<"k">>}

Runs == <<"dry", "first", "second">>

InitMain ==
    /\ disk \in InitialDisks
    /\ disk0 = disk
    /\ \E paths \in TargetLists(MaxTargets) \ {<<>>} :
          source_files = discover_source_files(paths)
    /\ skip \in SkipChoices
    /\ run = "dry"
    /\ pos = 1
    /\ changed_count = 0
    /\ error_count = 0
    /\ reported = <<>>
    /\ IdleText
    /\ IdleWriter

\* "py" is skipped when no .py file was discovered, the others by flag
Work == WorkFrom(source_files, skip, 1)

\* line 258: nothing discovered, main returns before the loop
NothingFound == \A t \in Range(FileTypes) : source_files[t] = <<>>

\* the effect of one iteration on the disk and on the counters
Processed1(path, r) ==
    /\ disk' = [disk EXCEPT ![path] = r.file]
    /\ changed_count' = changed_count + (IF r.changed THEN 1 ELSE 0)
    /\ error_count' = error_count + (IF r.error THEN 1 ELSE 0)

\* one iteration of the loop of lines 282-291
ProcessFile ==
    /\ run \in Range(Runs)
    /\ ~NothingFound
    /\ pos <= Len(Work)
    /\ Processed1(Work[pos].path,
                   ProcessOne(disk[Work[pos].path], Work[pos].file_type,
                              run = "dry", PyKeep, ShKeep))
    /\ pos' = pos + 1
    /\ UNCHANGED <<disk0, source_files, skip, run, reported, textVars, writerVars>>

\* lines 293-302: the count is reported and main returns; the next run starts
FinishRun ==
    /\ run \in Range(Runs)
    /\ NothingFound \/ pos > Len(Work)
    /\ reported' = Append(reported, changed_count)
    /\ run' = CASE run = "dry" -> "first" [] run = "first" -> "second" [] OTHER -> "done"
    /\ pos' = 1
    /\ changed_count' = 0
    /\ error_count' = 0
    /\ UNCHANGED <<disk, disk0, source_files, skip, textVars, writerVars>>

NextMain == ProcessFile \/ FinishRun

SpecMain == InitMain /\ [][NextMain]_vars

(* ------------------------------------------------------------------ *)
(* Properties                                                          *)
(* ------------------------------------------------------------------ *)

\* the characters of t before its first newline
FirstLine(t) == SubSeq(t, 1, LineEnd(t, 1) - 1)

\* t without its trailing spaces and tabs
RECURSIVE RStrip(_)
RStrip(t) ==
    IF t = <<>> \/ Last(t) \notin HSpace THEN t
    ELSE RStrip(SubSeq(t, 1, Len(t) - 1))

EndsWith(t, p) == Len(p) <= Len(t) /\ StartsAt(t, p, Len(t) - Len(p) + 1)

\* the texts of the NAME, OP and STRING tokens, in order
RECURSIVE CodeTokens(_)
CodeTokens(toks) ==
    IF toks = <<>> THEN <<>>
    ELSE IF Head(toks).type \in {"NAME", "OP", "STRING"}
         THEN <<Head(toks).string>> \o CodeTokens(Tail(toks))
    ELSE CodeTokens(Tail(toks))

\* C1 (as claimed): after a non-dry run of main, a second non-dry run over
\* the same files reports zero changed files, for every supported format.
C1_SecondPassReportsNoChange == run = "done" => reported[3] = 0

\* C2 (as claimed): when tokenizing the text handed to the tokenizer fails
\* with a TokenError (unterminated string) or an IndentationError,
\* strip_python_comments raises nothing and returns its source untouched.
C2_TokenizeFailureReturnsSource ==
    (op = "python"
     /\ PyTokenize(Remaining(source)).err \in {"TokenError", "IndentationError"})
        => (~result.raised /\ result.value = source)

\* C3: a dry-run call of write_if_changed leaves the file as it was and
\* raises nothing, and its verdict is the verdict the non-dry call returns
\* from the same starting file (whenever that call returns).
C3_DryRunKeepsDiskAndVerdict ==
    /\ dry_call.called => (dry_call.file = start /\ ~dry_call.raised)
    /\ (dry_call.called /\ real_call.called /\ ~real_call.raised)
          => dry_call.verdict = real_call.verdict

\* C3 witness: both calls were made from a file the non-dry call rewrote
C3_Witness ==
    /\ dry_call.called
    /\ real_call.called
    /\ real_call.verdict
    /\ real_call.file # start
    /\ dry_call.file = start

\* C4 (as claimed): for a source that tokenizes, the output tokenizes and
\* its NAME, OP and STRING tokens are those of the source, text for text.
C4_CodeTokensVerbatim ==
    (op = "python" /\ ~result.raised /\ PyTokenize(source).err = "none")
        => /\ PyTokenize(result.value).err = "none"
           /\ CodeTokens(PyTokenize(result.value).toks)
                 = CodeTokens(PyTokenize(source).toks)

\* C5 (as claimed): for a source starting with "#!", the first line of the
\* output of strip_python_comments and of strip_shell_comments is the first
\* line of the source, character for character.
C5_ShebangLineVerbatim ==
    (op \in {"python", "shell"} /\ has_shebang(source) /\ ~result.raised)
        => FirstLine(result.value) = FirstLine(source)

\* C5 (amended): for a source starting with "#!", the first line of the
\* output of strip_python_comments is the first line of the source,
\* character for character; the first line of the output of
\* strip_shell_comments is that line without its trailing spaces and tabs.
C5_ShebangLineKept ==
    /\ (op = "python" /\ has_shebang(source) /\ ~result.raised)
          => FirstLine(result.value) = FirstLine(source)
    /\ (op = "shell" /\ has_shebang(source))
          => FirstLine(result.value) = RStrip(FirstLine(source))

\* C5 witness: the Shell stripper ran on a shebang line that ends in a space
\* or tab, with the empty keyword set
C5_Witness ==
    /\ op = "shell"
    /\ has_shebang(source)
    /\ keep_keywords = {}
    /\ RStrip(FirstLine(source)) # FirstLine(source)
    /\ Len(splitlines(source)) > 1

\* C6 (as claimed): when the remaining text tokenizes, the returned text is
\* cleanup_empty_lines(prefix + reconstructed text).
C6_NormalizedAfterReattach ==
    (op = "python" /\ Processed(source, keep_keywords).kind = "text")
        => result.value =
              cleanup_empty_lines(PreservedPrefix(source)
                                  \o Processed(source, keep_keywords).text)

\* C6 (amended): when the remaining text tokenizes, the returned text is the
\* preserved prefix, verbatim, followed by cleanup_empty_lines(reconstructed
\* text): the part after the prefix is a fixed point of cleanup_empty_lines.
C6_PrefixThenNormalizedRest ==
    (op = "python" /\ Processed(source, keep_keywords).kind = "text")
        => LET pre == PreservedPrefix(source)
               rest == From(result.value, Len(pre) + 1)
           IN  /\ ~result.raised
               /\ StartsWith(result.value, pre)
               /\ rest = cleanup_empty_lines(Processed(source, keep_keywords).text)
               /\ cleanup_empty_lines(rest) = rest

\* C6 witness: a prefix was preserved and the whole output is no fixed point
\* of cleanup_empty_lines
C6_Witness ==
    /\ op = "python"
    /\ Processed(source, keep_keywords).kind = "text"
    /\ PreservedPrefix(source) # <<>>
    /\ EndsWithNewline(result.value)
    /\ cleanup_empty_lines(result.value) # result.value

\* C7: cleanup_empty_lines applied to its own output returns that output.
C7_CleanupIdempotent == op = "cleanup_twice" => result2 = result.value

\* C7 witness: the normaliser ran twice on a text with spaces or tabs before
\* a newline, which its first run shortened by two characters or more
C7_Witness ==
    /\ op = "cleanup_twice"
    /\ Len(result.value) + 2 <= Len(source)
    /\ \E i \in 1..(Len(source) - 1) : source[i] \in HSpace /\ source[i + 1] = NL

\* C8 (as claimed): for a non-empty input the result of cleanup_empty_lines
\* ends with exactly one newline.
C8_ExactlyOneFinalNewline ==
    (op = "cleanup" /\ source # <<>>)
        => /\ EndsWithNewline(result.value)
           /\ ~EndsWith(result.value, <<NL, NL>>)

\* C8 (amended): the result of cleanup_empty_lines is empty exactly when the
\* input holds only spaces and tabs; otherwise it ends with a newline, and
\* with at most two of them.
C8_FinalNewline ==
    op = "cleanup"
        => /\ result.value = <<>> <=> (\A i \in 1..Len(source) : source[i] \in HSpace)
           /\ result.value # <<>>
                 => /\ EndsWithNewline(result.value)
                    /\ ~EndsWith(result.value, <<NL, NL, NL>>)

\* C8 witness: a non-empty input whose result ends with two newlines
C8_Witness ==
    /\ op = "cleanup"
    /\ source # <<>>
    /\ EndsWith(result.value, <<NL, NL>>)

\* the rule of C9 for one line: its first non-whitespace character is "#"
\* and no keyword occurs in the lower-cased text after that "#"
DroppedByRule(line, keywords) ==
    \E p \in 1..Len(line) :
        /\ line[p] = "#"
        /\ \A m \in 1..(p - 1) : line[m] \in Whitespace
        /\ ~\E kw \in keywords :
               IsSubstring(kw, Lower(SubSeq(line, p + 1, Len(line))))

\* the lines of lines[i..] the rule keeps, joined
RECURSIVE KeptByRule(_, _, _)
KeptByRule(lines, i, keywords) ==
    IF i > Len(lines) THEN <<>>
    ELSE IF (i = 1 /\ has_shebang(lines[1])) \/ ~DroppedByRule(lines[i], keywords)
         THEN lines[i] \o KeptByRule(lines, i + 1, keywords)
    ELSE KeptByRule(lines, i + 1, keywords)

\* C9: strip_shell_comments drops exactly the lines, other than a first-line
\* shebang, whose first non-whitespace character is "#" and whose text after
\* it holds no keyword; the other lines are kept in order, changed only by
\* the normaliser.
C9_ShellDropsExactlyPlainComments ==
    op = "shell"
        => result.value =
              cleanup_empty_lines(KeptByRule(splitlines(source), 1, keep_keywords))

\* C9 witness: the Shell stripper ran on a source with a comment line it
\* drops, an upper-case keyword comment it keeps and a code line with an
\* inline comment
C9_Witness ==
    /\ op = "shell"
    /\ LET lines == splitlines(source)
       IN  \E i, j, k \in 1..Len(lines) :
              /\ DroppedByRule(lines[i], keep_keywords)
              /\ StartsWith(LStrip(lines[j]), <<"#">>)
              /\ IsSubstring(<<"K">>, lines[j])
              /\ ~DroppedByRule(lines[j], keep_keywords)
              /\ j > 1
              /\ ~StartsWith(LStrip(lines[k]), <<"#">>)
              /\ IsSubstring(<<"#">>, lines[k])
    /\ result.value # source

\* C10 (as claimed): the changed-file count main reports with --dry-run
\* equals the count it reports without it from the same disk state.
C10_DryRunCountIsRealCount == run = "done" => reported[1] = reported[2]

====
